---- MODULE Spec2Model ----
(***************************************************************************)
(* caniuse.rs: the incremental search session of the Index component       *)
(* (src/src/components/index.rs) and the build-time n-gram index builder   *)
(* (src/build.rs).                                                         *)
(*                                                                         *)
(* Strings are sequences of bytes (ASCII codes): "a" = 97, "A" = 65,       *)
(* "b" = 98, "B" = 66, " " = 32, "`" = 96.  An Option<T> is <<>> (None) or *)
(* <<v>> (Some(v)).  A Vec<FeatureData> of copies of corpus entries is the *)
(* sequence of their 0-based corpus positions.                             *)
(***************************************************************************)
EXTENDS Integers, Sequences, FiniteSets, TLC

VARIABLES
    \* ---- run time: struct Index and the messages it is sent
    FEATURES,                 \* the static corpus (never changes)
    current_search_terms,     \* Vec<String>
    current_search_results,   \* Vec<FeatureData>, as corpus positions
    items_visible,            \* usize
    timeout_task,             \* _timeout_task: "pending" or "fired"
    search_query,             \* props of the last change (None before one)
    searched,                 \* which list the last change filtered
    last_msg,                 \* the last handler that ran
    repeated,                 \* the last change repeated the query before it
    \* ---- build time: generate_data
    feature_toml,             \* its argument: the versions, each a feature list
    pc,                       \* position of generate_data
    vi,                       \* outer loop: versions consumed
    fi,                       \* inner loop: features of version vi consumed
    feat_idx,                 \* u16 counter
    monogram_index,           \* BTreeMap<Vec<u8>, BTreeSet<u16>>
    bigram_index,
    trigram_index,
    out                       \* the emitted index tables (None until the end)

run_vars == <<FEATURES, current_search_terms, current_search_results,
              items_visible, timeout_task, search_query, searched, last_msg,
              repeated>>
build_vars == <<feature_toml, pc, vi, fi, feat_idx, monogram_index,
                bigram_index, trigram_index, out>>
vars == <<run_vars, build_vars>>

----------------------------------------------------------------------------
(* Bounds of the model *)

MaxQueryLen == 3      \* bytes in a typed query
MaxBatches == 2       \* batches shown before scrolling stops adding
MaxVersions == 2      \* versions in features.toml
MaxFeatures == 2      \* features in features.toml, all versions together
MaxTermLen == 3       \* bytes in a term looked up in the gram indexes

----------------------------------------------------------------------------
(* Bytes and strings *)

Backtick == 96

is_ascii_graphic(byte) == byte >= 33 /\ byte <= 126

is_whitespace(byte) == byte \in {9, 10, 11, 12, 13, 32}

to_ascii_lowercase(byte) == IF byte >= 65 /\ byte <= 90 THEN byte + 32 ELSE byte

to_lowercase(s) == [i \in 1..Len(s) |-> to_ascii_lowercase(s[i])]

\* str::contains: needle is a contiguous substring of hay
contains(hay, needle) ==
    \E i \in 0..(Len(hay) - Len(needle)) : SubSeq(hay, i + 1, i + Len(needle)) = needle

starts_with(s, prefix) ==
    Len(prefix) <= Len(s) /\ SubSeq(s, 1, Len(prefix)) = prefix

\* All strings over alphabet of length 0..n
RECURSIVE StringsUpTo(_, _)
StringsUpTo(alphabet, n) ==
    IF n = 0 THEN {<<>>}
    ELSE LET shorter == StringsUpTo(alphabet, n - 1)
         IN shorter \cup {Append(s, c) : s \in shorter, c \in alphabet}

----------------------------------------------------------------------------
(* The corpus: FeatureData and its searchable fields *)

Feature(title, flag, items) == [title |-> title, flag |-> flag, items |-> items]

\* [title, flag?, items...]
searchable_fields(f) == <<f.title>> \o f.flag \o f.items

\* Term extractor: split on whitespace, drop empty tokens, lowercase
RECURSIVE split_whitespace(_)
split_whitespace(s) ==
    IF s = <<>> THEN <<>>
    ELSE IF is_whitespace(Head(s)) THEN split_whitespace(Tail(s))
    ELSE LET n == CHOOSE k \in 1..Len(s) :
                      /\ \A i \in 1..k : ~is_whitespace(s[i])
                      /\ (k = Len(s) \/ is_whitespace(s[k + 1]))
         IN <<SubSeq(s, 1, n)>> \o split_whitespace(SubSeq(s, n + 1, Len(s)))

extract_search_terms(query) ==
    LET tokens == split_whitespace(query)
    IN <<[i \in 1..Len(tokens) |-> to_lowercase(tokens[i])]>>

unwrap_or_default(opt) == IF opt = <<>> THEN <<>> ELSE opt[1]

\* FeatureData::does_match: every term matches, case-insensitively, at least
\* one searchable field
does_match(f, search_terms) ==
    \A k \in 1..Len(search_terms) :
        \E j \in 1..Len(searchable_fields(f)) :
            contains(to_lowercase(searchable_fields(f)[j]), to_lowercase(search_terms[k]))

\* FEATURES[i], 0-based
FeatureAt(i) == FEATURES[i + 1]

\* FEATURES as a list of the positions 0..N-1
AllFeatures == [i \in 1..Len(FEATURES) |-> i - 1]

----------------------------------------------------------------------------
(* Index::change, in its parts *)

\* lines 88-96: may the previous result list be searched?
is_refinement_no_prefix_check(prev_terms, search_terms) ==
    /\ prev_terms # <<>>
    /\ Len(prev_terms) <= Len(search_terms)
    /\ LET len == Len(prev_terms)
       IN \/ prev_terms = SubSeq(search_terms, 1, len)
          \/ starts_with(search_terms[len], prev_terms[len])

is_refinement_when_empty(prev_terms, search_terms) ==
    /\ Len(prev_terms) <= Len(search_terms)
    /\ LET len == Len(prev_terms)
       IN \/ prev_terms = SubSeq(search_terms, 1, len)
          \/ /\ len >= 1
             /\ SubSeq(prev_terms, 1, len - 1) = SubSeq(search_terms, 1, len - 1)
             /\ starts_with(search_terms[len], prev_terms[len])

is_refinement_whole_terms_only(prev_terms, search_terms) ==
    /\ prev_terms # <<>>
    /\ Len(prev_terms) <= Len(search_terms)
    /\ prev_terms = SubSeq(search_terms, 1, Len(prev_terms))

is_refinement(prev_terms, search_terms) ==
    /\ prev_terms # <<>>
    /\ Len(prev_terms) <= Len(search_terms)
    /\ LET len == Len(prev_terms)
       IN \/ prev_terms = SubSeq(search_terms, 1, len)
          \/ /\ SubSeq(prev_terms, 1, len - 1) = SubSeq(search_terms, 1, len - 1)
             /\ starts_with(search_terms[len], prev_terms[len])

\* line 108: features_to_search.iter().filter(does_match).copied().collect()
filter_matching_reversed(features_to_search, search_terms) ==
    LET kept == SelectSeq(features_to_search,
                          LAMBDA i : does_match(FeatureAt(i), search_terms))
    IN [k \in 1..Len(kept) |-> kept[Len(kept) + 1 - k]]

filter_matching_skip_first(features_to_search, search_terms) ==
    IF features_to_search = <<>> THEN <<>>
    ELSE SelectSeq(Tail(features_to_search),
                   LAMBDA i : does_match(FeatureAt(i), search_terms))

filter_matching(features_to_search, search_terms) ==
    SelectSeq(features_to_search, LAMBDA i : does_match(FeatureAt(i), search_terms))

\* lines 105-109
new_results_keep_on_empty(features_to_search, search_terms) ==
    filter_matching(features_to_search, search_terms)

new_results(features_to_search, search_terms) ==
    IF search_terms = <<>> THEN <<>>
    ELSE filter_matching(features_to_search, search_terms)

BATCH_SIZE == 12

\* line 74: self.items_visible += BATCH_SIZE
more_items_one(n) == n + 1

more_items(n) == n + BATCH_SIZE

----------------------------------------------------------------------------
(* The corpora and the queries of the model *)

\* {0: "async functions", no flag, []}, {1: "async blocks", "async_await", ["await"]}
ExampleCorpus ==
    << Feature(<<97,115,121,110,99,32,102,117,110,99,116,105,111,110,115>>, <<>>, <<>>),
       Feature(<<97,115,121,110,99,32,98,108,111,99,107,115>>,
               << <<97,115,121,110,99,95,97,119,97,105,116>> >>,
               << <<97,119,97,105,116>> >>) >>

\* {0: "ab"}, {1: "B a", flag "ab", ["ba"]}, {2: "a", ["B", "aa"]}, {3: "B"}
SmallCorpus ==
    << Feature(<<97,98>>, <<>>, <<>>),
       Feature(<<66,32,97>>, << <<97,98>> >>, << <<98,97>> >>),
       Feature(<<97>>, <<>>, << <<66>>, <<97,97>> >>),
       Feature(<<66>>, <<>>, <<>>) >>

Corpora == {ExampleCorpus, SmallCorpus, <<>>}

\* "a", "B", " "
QueryAlphabet == {97, 66, 32}

QueryAsync == <<97,115,121,110,99>>          \* "async"
QueryAsyncA == <<97,115,121,110,99,32,97>>   \* "async a"

\* "a B", "a Ba", "B B": a second word being typed, and a first word replaced
LongerQueries == {<<97,32,66>>, <<97,32,66,97>>, <<66,32,66>>}

Queries ==
    StringsUpTo(QueryAlphabet, MaxQueryLen) \cup LongerQueries
        \cup {QueryAsync, QueryAsyncA}

----------------------------------------------------------------------------
(* The run-time state machine: struct Index *)

EmptyIndex == [g \in {} |-> {}]

\* no build is running
BuildIdle ==
    /\ feature_toml = <<>>
    /\ pc = "idle"
    /\ vi = 0
    /\ fi = 0
    /\ feat_idx = 0
    /\ monogram_index = EmptyIndex
    /\ bigram_index = EmptyIndex
    /\ trigram_index = EmptyIndex
    /\ out = <<>>

\* Index::create: the props are not read
Init ==
    /\ FEATURES \in Corpora
    /\ current_search_terms = <<>>
    /\ current_search_results = <<>>
    /\ items_visible = BATCH_SIZE
    /\ timeout_task = "pending"
    /\ search_query = <<>>
    /\ searched = "none"
    /\ last_msg = "create"
    /\ repeated = FALSE
    /\ BuildIdle

\* Index::update(Msg::Update); near: distance_to_bottom < inner_height
update(near) ==
    /\ near => more_items(items_visible) <= MaxBatches * BATCH_SIZE
    /\ items_visible' = IF near THEN more_items(items_visible) ELSE items_visible
    /\ last_msg' = "update"
    /\ UNCHANGED <<FEATURES, current_search_terms, current_search_results,
                   search_query, searched, repeated>>

\* the scroll and resize callbacks send Msg::Update
ScrollOrResize ==
    /\ \E near \in BOOLEAN :
        /\ update(near)
        /\ timeout_task' = IF near THEN "pending" ELSE timeout_task
    /\ UNCHANGED build_vars

\* the zero-delay timeout sends Msg::Update once
Timeout ==
    /\ timeout_task = "pending"
    /\ \E near \in BOOLEAN :
        /\ update(near)
        /\ timeout_task' = IF near THEN "pending" ELSE "fired"
    /\ UNCHANGED build_vars

\* Index::change(props)
change(query) ==
    LET search_terms == unwrap_or_default(extract_search_terms(query))
        use_results == is_refinement(current_search_terms, search_terms)
        features_to_search == IF use_results THEN current_search_results ELSE AllFeatures
    IN /\ current_search_results' = new_results(features_to_search, search_terms)
       /\ current_search_terms' = search_terms
       /\ items_visible' = BATCH_SIZE
       /\ timeout_task' = "pending"
       /\ search_query' = <<query>>
       /\ searched' = IF use_results THEN "results" ELSE "FEATURES"
       /\ last_msg' = "change"
       /\ repeated' = (search_query = <<query>>)
       /\ UNCHANGED FEATURES

Change ==
    /\ \E query \in Queries : change(query)
    /\ UNCHANGED build_vars

Next == Change \/ ScrollOrResize \/ Timeout

Spec == Init /\ [][Next]_vars

----------------------------------------------------------------------------
(* Properties of the search session (Spec) *)

\* the positions of the features that match every term, in corpus order
ExpectedResults(terms) ==
    SelectSeq(AllFeatures, LAMBDA i : does_match(FeatureAt(i), terms))

IsPrefixOf(p, s) == Len(p) <= Len(s) /\ \A k \in 1..Len(p) : s[k] = p[k]

\* the refinement test as the design states it, P the previous terms and Q the new
RefinementTest(P, Q) ==
    /\ Len(P) >= 1
    /\ Len(P) <= Len(Q)
    /\ \/ \A i \in 1..Len(P) : P[i] = Q[i]
       \/ /\ \A i \in 1..(Len(P) - 1) : P[i] = Q[i]
          /\ IsPrefixOf(P[Len(P)], Q[Len(P)])

TermsOfQuery(query) == unwrap_or_default(extract_search_terms(query))

\* C1: whenever the stored terms are non-empty, the stored results are the
\* whole corpus filtered by does_match on those terms, in corpus order; so the
\* cached-result path gives what a full restart would give.
C1_ResultsAreFullFilter ==
    current_search_terms # <<>> =>
        current_search_results = ExpectedResults(current_search_terms)

C1_Witness ==
    /\ last_msg = "change"
    /\ searched = "results"
    /\ current_search_results # <<>>
    /\ Len(current_search_results) < Len(FEATURES)
    /\ Len(current_search_terms) = 2

\* C2: a change searches the previous result list exactly when the refinement
\* test holds of the previous and the new terms, and the whole corpus otherwise.
C2_CacheIffRefinement ==
    [][last_msg' = "change" =>
          searched' = IF RefinementTest(current_search_terms, current_search_terms')
                      THEN "results" ELSE "FEATURES"]_vars

C2_Witness ==
    /\ last_msg = "change"
    /\ searched = "results"
    /\ Len(current_search_terms) = 2
    /\ Len(current_search_terms[2]) = 2

\* what holds of the stored terms and results in every state
C3_StateInv ==
    /\ current_search_terms = <<>> => current_search_results = <<>>
    /\ last_msg = "create" => current_search_terms = <<>> /\ searched = "none"
    /\ search_query = <<>> => current_search_terms = <<>>
    /\ search_query # <<>> => current_search_terms = TermsOfQuery(search_query[1])

\* C3: the session is Empty (no terms, no results) or Active (terms, results):
\* it starts Empty; a change leaves exactly the extracted terms, and with no
\* terms an empty result list; a change arriving in Empty searches the whole
\* corpus.
C3_EmptyActive ==
    /\ []C3_StateInv
    /\ [][(last_msg' = "change" /\ current_search_terms = <<>>) =>
             searched' = "FEATURES"]_vars

C3_Witness ==
    /\ last_msg = "change"
    /\ FEATURES # <<>>
    /\ current_search_terms # <<>>
    /\ current_search_results = <<>>

\* the stored results as a function of the last query
C7_ResultsOfQuery ==
    search_query # <<>> =>
        current_search_results =
            IF TermsOfQuery(search_query[1]) = <<>> THEN <<>>
            ELSE ExpectedResults(TermsOfQuery(search_query[1]))

\* C7: a change that repeats the query of the change before it leaves terms and
\* results as they were, and the results are a function of the last query alone.
C7_Idempotent ==
    /\ []C7_ResultsOfQuery
    /\ [][(last_msg' = "change" /\ search_query # <<>> /\ search_query' = search_query) =>
             /\ current_search_terms' = current_search_terms
             /\ current_search_results' = current_search_results]_vars

C7_Witness ==
    /\ repeated
    /\ last_msg = "change"
    /\ current_search_results # <<>>
    /\ Len(current_search_results) < Len(FEATURES)

\* C8 as stated: on the example corpus "async" gives [0, 1], then "async a" is a
\* refinement that narrows the results to [1], and "" gives the Empty state.
C8_ExampleAsStated ==
    /\ [](FEATURES = ExampleCorpus =>
            /\ search_query = <<QueryAsync>> => current_search_results = <<0, 1>>
            /\ search_query = << <<>> >> =>
                   current_search_terms = <<>> /\ current_search_results = <<>>)
    /\ [][(/\ FEATURES = ExampleCorpus
           /\ search_query = <<QueryAsync>>
           /\ search_query' = <<QueryAsyncA>>) =>
             searched' = "results" /\ current_search_results' = <<1>>]_vars

\* C8, amended: on the example corpus "async" gives [0, 1], then "async a" is a
\* refinement that leaves the results [0, 1] (the term "a" occurs in the title
\* of feature 0 too), and "" gives the Empty state.
C8_Example ==
    /\ [](FEATURES = ExampleCorpus =>
            /\ search_query = <<QueryAsync>> => current_search_results = <<0, 1>>
            /\ search_query = << <<>> >> =>
                   current_search_terms = <<>> /\ current_search_results = <<>>)
    /\ [][(/\ FEATURES = ExampleCorpus
           /\ search_query = <<QueryAsync>>
           /\ search_query' = <<QueryAsyncA>>) =>
             searched' = "results" /\ current_search_results' = <<0, 1>>]_vars

C8_Witness ==
    /\ FEATURES = ExampleCorpus
    /\ search_query = <<QueryAsyncA>>
    /\ searched = "results"
    /\ Len(current_search_terms) = 2

\* C9: the results are corpus positions in strictly ascending order.
C9_ResultsAscending ==
    /\ \A k \in 1..Len(current_search_results) :
           current_search_results[k] \in 0..(Len(FEATURES) - 1)
    /\ \A k \in 1..(Len(current_search_results) - 1) :
           current_search_results[k] < current_search_results[k + 1]

C9_Witness ==
    /\ searched = "results"
    /\ Len(current_search_results) >= 2
    /\ Len(current_search_results) < Len(FEATURES)

\* C10: an update leaves terms and results alone and adds 12 or nothing to
\* items_visible; a change resets items_visible to 12; items_visible is always
\* a positive multiple of 12.
C10_UpdateFrame ==
    /\ [](items_visible > 0 /\ items_visible % 12 = 0)
    /\ [][last_msg' = "update" =>
             /\ current_search_terms' = current_search_terms
             /\ current_search_results' = current_search_results
             /\ items_visible' \in {items_visible, items_visible + 12}]_vars
    /\ [][last_msg' = "change" => items_visible' = 12]_vars

C10_Witness ==
    /\ last_msg = "update"
    /\ items_visible = 24
    /\ current_search_results # <<>>

----------------------------------------------------------------------------
(* Build time: generate_data and add_feature_ngrams (build.rs) *)

\* the features of features.toml the model draws from:
\* "ab" | "A b", flag "b", ["bb"] | "`a`", ["b"] | "b", flag "a`" |
\* "a", ["a`b"] | "", ["aab", "b a"]
FeatureUniverse ==
    { Feature(<<97,98>>, <<>>, <<>>),
      Feature(<<65,32,98>>, << <<98>> >>, << <<98,98>> >>),
      Feature(<<96,97,96>>, <<>>, << <<98>> >>),
      Feature(<<98>>, << <<97,96>> >>, <<>>),
      Feature(<<97>>, <<>>, << <<97,96,98>> >>),
      Feature(<<>>, <<>>, << <<97,97,98>>, <<98,32,97>> >>) }

RECURSIVE FeatureLists(_)
FeatureLists(n) ==
    IF n = 0 THEN {<<>>}
    ELSE LET shorter == FeatureLists(n - 1)
         IN shorter \cup {Append(l, f) : l \in shorter, f \in FeatureUniverse}

\* the version lists of at most k versions and n features in all
RECURSIVE FeatureTomls(_, _)
FeatureTomls(k, n) ==
    IF k = 0 THEN {<<>>}
    ELSE {<<>>} \cup
         UNION { { <<fl>> \o rest : rest \in FeatureTomls(k - 1, n - Len(fl)) } :
                 fl \in FeatureLists(n) }

Inputs == FeatureTomls(MaxVersions, MaxFeatures)

\* the features in the order the two loops of generate_data visit them
RECURSIVE Flatten(_)
Flatten(versions) ==
    IF versions = <<>> THEN <<>> ELSE Head(versions) \o Flatten(Tail(versions))

\* slice::windows(n)
windows(bytes, n) == {SubSeq(bytes, i, i + n - 1) : i \in 1..(Len(bytes) - n + 1)}

\* lines 236-255
add_feature_ngrams_title_only(n, index, feature, idx) ==
    LET grams == {g \in windows(feature.title, n) :
                     \A k \in 1..n : is_ascii_graphic(g[k]) /\ g[k] # Backtick}
    IN [g \in DOMAIN index \cup grams |->
           IF g \in grams
           THEN (IF g \in DOMAIN index THEN index[g] ELSE {}) \cup {idx}
           ELSE index[g]]

add_feature_ngrams(n, index, feature, idx) ==
    LET strings == <<feature.title>> \o feature.flag \o feature.items
        all == UNION {windows(strings[j], n) : j \in 1..Len(strings)}
        grams == {g \in all : \A k \in 1..n : is_ascii_graphic(g[k]) /\ g[k] # Backtick}
    IN [g \in DOMAIN index \cup grams |->
           IF g \in grams
           THEN (IF g \in DOMAIN index THEN index[g] ELSE {}) \cup {idx}
           ELSE index[g]]

\* lines 148-151: the assertion on a feature's items
items_ok_unchecked(f) == TRUE

items_ok(f) == ~\E j \in 1..Len(f.items) : contains(f.items[j], <<Backtick>>)

\* Candidate retriever: the postings of the width-w grams of the term,
\* w = min(3, length of the term), intersected; an absent gram has no postings
postings(table, g) ==
    IF g \in DOMAIN table THEN {table[g][k] : k \in 1..Len(table[g])} ELSE {}

candidates(tables, term) ==
    LET w == IF Len(term) < 3 THEN Len(term) ELSE 3
        grams == windows(term, w)
        listed == UNION {postings(tables[w], g) : g \in grams}
    IN {i \in listed : \A g \in grams : i \in postings(tables[w], g)}

\* BTreeSet iteration: ascending
SortedSeq(S) ==
    CHOOSE q \in [1..Cardinality(S) -> S] :
        \A i \in 1..(Cardinality(S) - 1) : q[i] < q[i + 1]

\* lines 165-219: each accumulator as the emitted table, gram -> &[u16]
emit_table(index) == [g \in DOMAIN index |-> SortedSeq(index[g])]

RunIdle ==
    /\ FEATURES = <<>>
    /\ current_search_terms = <<>>
    /\ current_search_results = <<>>
    /\ items_visible = BATCH_SIZE
    /\ timeout_task = "fired"
    /\ search_query = <<>>
    /\ searched = "none"
    /\ last_msg = "none"
    /\ repeated = FALSE

\* generate_data is entered: lines 122-128
BuildInit ==
    /\ feature_toml \in Inputs
    /\ pc = "versions"
    /\ vi = 0
    /\ fi = 0
    /\ feat_idx = 0
    /\ monogram_index = EmptyIndex
    /\ bigram_index = EmptyIndex
    /\ trigram_index = EmptyIndex
    /\ out = <<>>
    /\ RunIdle

\* line 130: the next version of the outer loop
NextVersion ==
    /\ pc = "versions"
    /\ vi < Len(feature_toml)
    /\ vi' = vi + 1
    /\ fi' = 0
    /\ pc' = "features"
    /\ UNCHANGED <<feature_toml, feat_idx, monogram_index, bigram_index,
                   trigram_index, out>>
    /\ UNCHANGED run_vars

\* lines 147-158: one feature of the inner loop
ProcessFeature ==
    /\ pc = "features"
    /\ fi < Len(feature_toml[vi])
    /\ LET f == feature_toml[vi][fi + 1]
       IN IF ~items_ok(f)
          THEN /\ pc' = "panicked"
               /\ UNCHANGED <<fi, feat_idx, monogram_index, bigram_index, trigram_index>>
          ELSE /\ monogram_index' = add_feature_ngrams(1, monogram_index, f, feat_idx)
               /\ bigram_index' = add_feature_ngrams(2, bigram_index, f, feat_idx)
               /\ trigram_index' = add_feature_ngrams(3, trigram_index, f, feat_idx)
               /\ feat_idx' = feat_idx + 1
               /\ fi' = fi + 1
               /\ pc' = pc
    /\ UNCHANGED <<feature_toml, vi, out>>
    /\ UNCHANGED run_vars

\* line 158-159: the inner loop ends
EndVersion ==
    /\ pc = "features"
    /\ fi = Len(feature_toml[vi])
    /\ pc' = "versions"
    /\ UNCHANGED <<feature_toml, vi, fi, feat_idx, monogram_index, bigram_index,
                   trigram_index, out>>
    /\ UNCHANGED run_vars

\* lines 161-226: the outer loop has ended; the tables are emitted
Emit ==
    /\ pc = "versions"
    /\ vi = Len(feature_toml)
    /\ out' = << <<emit_table(monogram_index), emit_table(bigram_index),
                   emit_table(trigram_index)>> >>
    /\ pc' = "done"
    /\ UNCHANGED <<feature_toml, vi, fi, feat_idx, monogram_index, bigram_index,
                   trigram_index>>
    /\ UNCHANGED run_vars

BuildNext == NextVersion \/ ProcessFeature \/ EndVersion \/ Emit

BuildSpec == BuildInit /\ [][BuildNext]_vars

----------------------------------------------------------------------------
(* Properties of the index builder (BuildSpec) *)

Corpus == Flatten(feature_toml)

HasBacktick(bytes) == \E k \in 1..Len(bytes) : bytes[k] = 96

\* lowercase terms without whitespace: "a", "b", "ab", ...
LookupTerms == StringsUpTo({97, 98}, MaxTermLen) \ {<<>>}

\* grams of printable bytes other than the backtick: over "a", "A", "b"
Grams(n) == {g \in StringsUpTo({97, 65, 98}, n) : Len(g) = n}

OccursInField(f, g) ==
    \E j \in 1..Len(searchable_fields(f)) : contains(searchable_fields(f)[j], g)

\* C4: once the tables are built, every feature with a field that contains a
\* lowercase term case-insensitively is among the candidates the tables give
\* for the term.
C4_RetrievalSound ==
    pc = "done" =>
        \A i \in 1..Len(Corpus) : \A t \in LookupTerms :
            (\E j \in 1..Len(searchable_fields(Corpus[i])) :
                 contains(to_lowercase(searchable_fields(Corpus[i])[j]), t))
            => (i - 1) \in candidates(out[1], t)

\* C5: once all features are processed, position i is in the entry of gram g of
\* the n-gram table exactly when g is a substring of a searchable field of the
\* feature at position i, and no entry is empty.
C5_IndexExact ==
    pc = "done" =>
        \A n \in 1..3 :
            /\ \A g \in Grams(n) : \A i \in 1..Len(Corpus) :
                   (i - 1) \in postings(out[1][n], g) <=> OccursInField(Corpus[i], g)
            /\ \A g \in DOMAIN out[1][n] :
                   /\ out[1][n][g] # <<>>
                   /\ postings(out[1][n], g) \subseteq 0..(Len(Corpus) - 1)

C5_Witness ==
    /\ pc = "done"
    /\ Len(Corpus) = 2
    /\ \E g \in DOMAIN out[1][2] : Len(out[1][2][g]) = 2
    /\ DOMAIN out[1][3] # {}
    /\ \E i \in 1..2 : \E j \in 1..Len(Corpus[i].items) :
           \E k \in 1..Len(Corpus[i].items[j]) : ~is_ascii_graphic(Corpus[i].items[j][k])

\* C6 as stated: generate_data completes only when no title, flag or item of
\* any feature contains a backtick, and a panic leaves no tables.
C6_NoBacktickAnywhere ==
    /\ pc = "done" =>
           \A i \in 1..Len(Corpus) :
               \A j \in 1..Len(searchable_fields(Corpus[i])) :
                   ~HasBacktick(searchable_fields(Corpus[i])[j])
    /\ pc = "panicked" => out = <<>>

\* C6, amended: generate_data completes only when no item of any feature
\* contains a backtick; it panics at the first feature with such an item and
\* leaves no tables; titles and flags are not examined.
C6_NoBacktickInItems ==
    /\ pc = "done" =>
           /\ out # <<>>
           /\ \A i \in 1..Len(Corpus) : \A j \in 1..Len(Corpus[i].items) :
                  ~HasBacktick(Corpus[i].items[j])
    /\ pc = "panicked" =>
           /\ out = <<>>
           /\ \E j \in 1..Len(feature_toml[vi][fi + 1].items) :
                  HasBacktick(feature_toml[vi][fi + 1].items[j])
           /\ \A i \in 1..feat_idx : \A j \in 1..Len(Corpus[i].items) :
                  ~HasBacktick(Corpus[i].items[j])
    /\ out # <<>> => pc = "done"

C6_Witness ==
    /\ pc = "panicked"
    /\ feat_idx = 1
    /\ HasBacktick(Corpus[1].title)

====
